---- MODULE Spec2Model ----
(***************************************************************************)
(* Reductions of the software-package-upgrade problem (spu_solver.py) and  *)
(* of three graph problems (graph.py) to Weighted Partial MaxSAT.          *)
(*                                                                         *)
(* Spec       runs SPU: parse_and_solve line by line, then print_solution  *)
(*            and check_solution, as main() does.                          *)
(* GraphSpec  runs Graph: read_stream, then one of min_vertex_cover,       *)
(*            max_clique, max_cut.                                         *)
(***************************************************************************)
EXTENDS Integers, Sequences, FiniteSets, TLC

\* ------------------------------------------------------------------ bounds
MaxLines == 4        \* input lines of a package-upgrade stream
MaxAlts == 2         \* alternatives named on one `d` line
MaxNodes == 3        \* nodes of a graph
MaxEdgeLines == 3    \* `e` lines of a graph stream

\* Package names, listed in ascending order of Python's str comparison.
NameOrder == <<"a", "b">>
Names == {NameOrder[i] : i \in DOMAIN NameOrder}
name_rank(n) == CHOOSE i \in DOMAIN NameOrder : NameOrder[i] = n
str_le(x, y) == name_rank(x) <= name_rank(y)

\* ---------------------------------------------------- Python values, dicts
\* A Python value with its type: an int never equals a str, so a dict keyed
\* by str holds no int key and a list of ints holds no str.
IntVal(i) == [t |-> "int", v |-> i]
StrVal(s) == [t |-> "str", v |-> s]
EmptyDict == [k \in {} |-> 0]
dict_set(d, k, v) == [x \in DOMAIN d \cup {k} |-> IF x = k THEN v ELSE d[x]]
\* d.get(key) is not None, for a dict d whose keys are all str
str_dict_has(d, key) == key.t = "str" /\ key.v \in DOMAIN d
\* key in lst, for a list of ints
int_list_contains(lst, key) == key.t = "int" /\ \E i \in 1..Len(lst) : lst[i] = key.v

\* -------------------------------------------- wcnf.WCNFFormula (from spec)
TOP_WEIGHT == 0
NewFormula == [num_vars |-> 0, clauses |-> <<>>, raised |-> "none"]
new_var(f) == [f EXCEPT !.num_vars = @ + 1]
valid_literals(f, lits) ==
    \A i \in 1..Len(lits) :
        /\ lits[i] # 0
        /\ (IF lits[i] < 0 THEN -lits[i] ELSE lits[i]) <= f.num_vars
add_clause(f, lits, weight) ==
    IF valid_literals(f, lits)
    THEN [f EXCEPT !.clauses = Append(@, [lits |-> lits, weight |-> weight])]
    ELSE [f EXCEPT !.raised = "InvalidLiteral"]

\* An assignment as the solver returns it: entry i is i (true) or -i (false).
Models(n) == {[i \in 1..n |-> IF i \in S THEN i ELSE -i] : S \in SUBSET (1..n)}
lit_true(m, l) == IF l > 0 THEN m[l] > 0 ELSE m[-l] < 0
clause_sat(m, c) == \E i \in 1..Len(c.lits) : lit_true(m, c.lits[i])
hard_clauses(f) == {k \in 1..Len(f.clauses) : f.clauses[k].weight = TOP_WEIGHT}
soft_clauses(f) == {k \in 1..Len(f.clauses) : f.clauses[k].weight # TOP_WEIGHT}
sat_hard(f, m) == \A k \in hard_clauses(f) : clause_sat(m, f.clauses[k])
RECURSIVE sum_weights(_, _)
sum_weights(f, ks) ==
    IF ks = {} THEN 0
    ELSE LET k == CHOOSE x \in ks : TRUE
         IN f.clauses[k].weight + sum_weights(f, ks \ {k})
soft_cost(f, m) == sum_weights(f, {k \in soft_clauses(f) : ~clause_sat(m, f.clauses[k])})

\* -------------------------------------------------------------- variables
VARIABLES
    pc,            \* "parsing" | "solved" | "printed" | "validated" | "exit"
    stream,        \* the input lines consumed so far
    packages,      \* SPU.packages: name -> id
    package_ids,   \* SPU.package_ids: id -> name
    num_packages,  \* SPU.num_packages
    formula,       \* SPU.formula
    dependencies,  \* SPU.dependencies: name -> list of alternative lists
    conflicts,     \* SPU.conflicts: name -> list of names
    solution,      \* what parse_and_solve returned: [opt, model]
    solver_calls,  \* calls of solver.solve so far
    stdout,        \* lines printed
    outcome,       \* "running" | "UnknownPackage" | "PackageCountMismatch" | "KeyError"
    exit_code,     \* the process's exit status; -1 while it runs
    gpc,           \* "new" | "loaded" | "mvc" | "clique" | "cut" | "error"
    n_nodes,       \* Graph.n_nodes
    edges,         \* Graph.edges: a tuple of tuples
    warned,        \* read_stream printed its edge-count warning
    graph_formula  \* the formula a graph reduction hands to the solver

spu_vars == <<pc, stream, packages, package_ids, num_packages, formula,
              dependencies, conflicts, solution, solver_calls, stdout,
              outcome, exit_code>>
graph_vars == <<gpc, n_nodes, edges, warned, graph_formula>>
vars == <<spu_vars, graph_vars>>

\* ------------------------------------------------------------ input lines
AltLists == UNION {[1..k -> Names] : k \in 0..MaxAlts}
HeaderCounts == 0..Cardinality(Names)
Line(kind, args, count) == [kind |-> kind, args |-> args, count |-> count]
HeaderLines == {Line("p", <<>>, k) : k \in HeaderCounts}
PackageLines == {Line("n", <<n>>, 0) : n \in Names}
DependencyLines == {Line("d", <<n>> \o alts, 0) : n \in Names, alts \in AltLists}
ConflictLines == {Line("c", <<n1, n2>>, 0) : n1 \in Names, n2 \in Names}
OtherLines == {Line("#", <<>>, 0)}

Out(tag, num, names) == [tag |-> tag, num |-> num, names |-> names]
NoSolution == [opt |-> 0, model |-> <<>>]

\* ------------------------------------------------------------------- SPU
SPUInit ==
    /\ pc = "parsing"
    /\ stream = <<>>
    /\ packages = EmptyDict
    /\ package_ids = EmptyDict
    /\ num_packages = 0
    /\ formula = NewFormula
    /\ dependencies = EmptyDict
    /\ conflicts = EmptyDict
    /\ solution = NoSolution
    /\ solver_calls = 0
    /\ stdout = <<>>
    /\ outcome = "running"
    /\ exit_code = -1

GraphInit ==
    /\ gpc = "new"
    /\ n_nodes = 0
    /\ edges = <<>>
    /\ warned = FALSE
    /\ graph_formula = NewFormula

\* sys.exit(code) after print(message); an uncaught exception ends the
\* interpreter with status 1.
Exit(what, code, message) ==
    /\ pc' = "exit"
    /\ outcome' = what
    /\ exit_code' = code
    /\ stdout' = IF message = "" THEN stdout ELSE Append(stdout, Out(message, 0, <<>>))

Consume(line) ==
    /\ pc = "parsing"
    /\ Len(stream) < MaxLines
    /\ stream' = Append(stream, line)
    /\ UNCHANGED graph_vars

Continue == UNCHANGED <<pc, outcome, exit_code, stdout>>

\* check_package(package) returns (rather than exits) iff this holds
check_package(package) == package \in DOMAIN packages

ReadHeader ==
    \E line \in HeaderLines :
        /\ Consume(line)
        /\ num_packages' = line.count
        /\ Continue
        /\ UNCHANGED <<packages, package_ids, formula, dependencies, conflicts,
                       solution, solver_calls>>

new_package_id == Cardinality(DOMAIN packages) + 1

manage_package(package) ==
    LET package_id == new_package_id
        packages1 == dict_set(packages, package, package_id)
    IN  /\ packages' = packages1
        /\ package_ids' = dict_set(package_ids, package_id, package)
        /\ formula' = add_clause(new_var(formula), <<packages1[package]>>, 1)
        /\ dependencies' = dict_set(dependencies, package, <<>>)
        /\ conflicts' = dict_set(conflicts, package, <<>>)

ReadPackage ==
    \E line \in PackageLines :
        /\ Consume(line)
        /\ manage_package(line.args[1])
        /\ Continue
        /\ UNCHANGED <<num_packages, solution, solver_calls>>

\* The loop of manage_dependency over dependencies[1:], from position i (1-based).
RECURSIVE dependency_loop(_, _, _)
dependency_loop(deps, i, new_clause) ==
    IF i > Len(deps) THEN [raised |-> "none", clause |-> new_clause]
    ELSE IF ~check_package(deps[2]) THEN [raised |-> "UnknownPackage", clause |-> new_clause]
    ELSE IF deps[i] \notin DOMAIN packages THEN [raised |-> "KeyError", clause |-> new_clause]
    ELSE dependency_loop(deps, i + 1, Append(new_clause, packages[deps[i]]))

manage_dependency(deps) ==
    IF ~check_package(deps[1])
    THEN /\ Exit("UnknownPackage", 2, "El paquet no ha estat declarat...")
         /\ UNCHANGED <<formula, dependencies>>
    ELSE LET r == dependency_loop(deps, 2, <<>>) IN
         IF r.raised = "UnknownPackage"
         THEN /\ Exit("UnknownPackage", 2, "El paquet no ha estat declarat...")
              /\ UNCHANGED <<formula, dependencies>>
         ELSE IF r.raised = "KeyError"
         THEN /\ Exit("KeyError", 1, "")
              /\ UNCHANGED <<formula, dependencies>>
         ELSE /\ dependencies' = [dependencies EXCEPT ![deps[1]] = Append(@, Tail(deps))]
              /\ formula' = add_clause(formula, <<-packages[deps[1]]>> \o r.clause, TOP_WEIGHT)
              /\ Continue

ReadDependency ==
    \E line \in DependencyLines :
        /\ Consume(line)
        /\ manage_dependency(line.args)
        /\ UNCHANGED <<packages, package_ids, num_packages, conflicts,
                       solution, solver_calls>>

manage_conflict(cs) ==
    IF ~check_package(cs[2])
    THEN /\ Exit("UnknownPackage", 2, "El paquet no ha estat declarat...")
         /\ UNCHANGED <<formula, conflicts>>
    ELSE IF cs[1] \notin DOMAIN packages
    THEN /\ Exit("KeyError", 1, "")
         /\ UNCHANGED <<formula, conflicts>>
    ELSE /\ formula' = add_clause(formula, <<-packages[cs[1]], -packages[cs[2]]>>, TOP_WEIGHT)
         /\ conflicts' = [conflicts EXCEPT ![cs[1]] = Append(@, cs[2])]
         /\ Continue

ReadConflict ==
    \E line \in ConflictLines :
        /\ Consume(line)
        /\ manage_conflict(line.args)
        /\ UNCHANGED <<packages, package_ids, num_packages, dependencies,
                       solution, solver_calls>>

ReadOther ==
    \E line \in OtherLines :
        /\ Consume(line)
        /\ Continue
        /\ UNCHANGED <<packages, package_ids, num_packages, formula, dependencies,
                       conflicts, solution, solver_calls>>

\* the declarations counted instead of the distinct names
count_mismatch_declarations == formula.num_vars # num_packages
\* the test after the loop of parse_and_solve
count_mismatch == Cardinality(DOMAIN packages) # num_packages

CountMismatch ==
    /\ UNCHANGED graph_vars
    /\ pc = "parsing"
    /\ count_mismatch
    /\ Exit("PackageCountMismatch", 1, "Nombre de paquets incorrecte...")
    /\ UNCHANGED <<stream, packages, package_ids, num_packages, formula,
                   dependencies, conflicts, solution, solver_calls>>

\* solver.solve(formula): the gateway answers with a cost and one assignment
\* over the formula's variables.
Solve ==
    /\ UNCHANGED graph_vars
    /\ pc = "parsing"
    /\ ~count_mismatch
    /\ \E m \in Models(formula.num_vars) :
           solution' = [opt |-> soft_cost(formula, m), model |-> m]
    /\ solver_calls' = solver_calls + 1
    /\ pc' = "solved"
    /\ UNCHANGED <<stream, packages, package_ids, num_packages, formula,
                   dependencies, conflicts, stdout, outcome, exit_code>>

\* The loop of print_solution over the model, from position i.
RECURSIVE collect_negative(_, _, _)
collect_negative(model, i, installed_packages) ==
    IF i > Len(model) THEN [raised |-> "none", list |-> installed_packages]
    ELSE IF model[i] < 0
    THEN IF -model[i] \notin DOMAIN package_ids
         THEN [raised |-> "KeyError", list |-> installed_packages]
         ELSE collect_negative(model, i + 1, Append(installed_packages, package_ids[-model[i]]))
    ELSE collect_negative(model, i + 1, installed_packages)

\* list.sort() on a list of names
RECURSIVE insert_sorted(_, _)
insert_sorted(lst, x) ==
    IF lst = <<>> THEN <<x>>
    ELSE IF str_le(x, Head(lst)) THEN <<x>> \o lst
    ELSE <<Head(lst)>> \o insert_sorted(Tail(lst), x)
RECURSIVE list_sort(_)
list_sort(lst) ==
    IF lst = <<>> THEN <<>>
    ELSE insert_sorted(list_sort(SubSeq(lst, 1, Len(lst) - 1)), lst[Len(lst)])

print_solution(sol) ==
    LET r == collect_negative(sol.model, 1, <<>>) IN
    IF r.raised = "KeyError"
    THEN /\ stdout' = stdout \o <<Out("o", sol.opt, <<>>), Out("v", 0, <<>>)>>
         /\ pc' = "exit"
         /\ outcome' = "KeyError"
         /\ exit_code' = 1
    ELSE /\ stdout' = stdout \o <<Out("o", sol.opt, <<>>), Out("v", 0, list_sort(r.list))>>
         /\ pc' = "printed"
         /\ UNCHANGED <<outcome, exit_code>>

PrintSolution ==
    /\ UNCHANGED graph_vars
    /\ pc = "solved"
    /\ print_solution(solution)
    /\ UNCHANGED <<stream, packages, package_ids, num_packages, formula,
                   dependencies, conflicts, solution, solver_calls>>

\* package is the Python value taken from the model
ok_dependencies(package, model) ==
    IF ~str_dict_has(dependencies, package) THEN TRUE
    ELSE LET deps == dependencies[package.v]
             sat_dependencies ==
                 Cardinality({k \in 1..Len(deps) :
                     \E j \in 1..Len(deps[k]) :
                         /\ int_list_contains(model, StrVal(deps[k][j]))
                         /\ StrVal(deps[k][j]).v > 0})
         IN sat_dependencies = Len(deps)

ok_conflicts(package, model) ==
    IF str_dict_has(conflicts, package)
    THEN ~\E j \in 1..Len(conflicts[package.v]) :
             /\ int_list_contains(model, StrVal(conflicts[package.v][j]))
             /\ StrVal(conflicts[package.v][j]).v > 0
    ELSE TRUE

check_solution_correct(model) ==
    \A i \in 1..Len(model) :
        model[i] > 0 =>
            /\ ok_dependencies(IntVal(model[i]), model)
            /\ ok_conflicts(IntVal(model[i]), model)

\* main() calls it after print_solution when --validate is given
CheckSolution ==
    /\ UNCHANGED graph_vars
    /\ pc = "printed"
    /\ stdout' = Append(stdout,
           IF check_solution_correct(solution.model)
           THEN Out("c VALIDATION OK", 0, <<>>)
           ELSE Out("c VALIDATION WRONG", 0, <<>>))
    /\ pc' = "validated"
    /\ UNCHANGED <<stream, packages, package_ids, num_packages, formula,
                   dependencies, conflicts, solution, solver_calls, outcome, exit_code>>

SPUNext ==
    \/ ReadHeader
    \/ ReadPackage
    \/ ReadDependency
    \/ ReadConflict
    \/ ReadOther
    \/ CountMismatch
    \/ Solve
    \/ PrintSolution
    \/ CheckSolution

Init == SPUInit /\ GraphInit
Spec == Init /\ [][SPUNext]_vars

\* ------------------------------------------------- what the input stream says
package_decls == {j \in 1..Len(stream) : stream[j].kind = "n"}
declared_before(k) == {stream[j].args[1] : j \in {i \in package_decls : i < k}}
declared_names == declared_before(Len(stream) + 1)
names_of(line) == {line.args[i] : i \in 1..Len(line.args)}
refers_undeclared(k) ==
    /\ stream[k].kind \in {"d", "c"}
    /\ \E n \in names_of(stream[k]) : n \notin declared_before(k)
\* the count the last header line states; 0, as SPU.__init__ sets, without one
header_count ==
    LET ps == {j \in 1..Len(stream) : stream[j].kind = "p"}
    IN IF ps = {} THEN 0
       ELSE stream[CHOOSE j \in ps : \A i \in ps : i <= j].count
ResultTags == {"o", "v", "c VALIDATION OK", "c VALIDATION WRONG"}
result_lines == {i \in 1..Len(stdout) : stdout[i].tag \in ResultTags}
returned == pc \in {"solved", "printed", "validated"}
\* package `name` is installed under assignment m: its variable is true
installed(m, name) == m[packages[name]] > 0

\* C1: a `d` or `c` line naming a package that no earlier `n` line declared
\* ends the run with UnknownPackage (exit code 2), whichever position the
\* name has, and the solver is never invoked.
C1_UndeclaredReferenceIsUnknownPackage ==
    \A k \in 1..Len(stream) :
        refers_undeclared(k) =>
            /\ k = Len(stream)
            /\ pc = "exit"
            /\ outcome = "UnknownPackage"
            /\ exit_code = 2
            /\ solver_calls = 0

\* the recorded relations hold of assignment m
consistent(m) ==
    \A P \in DOMAIN packages :
        installed(m, P) =>
            /\ \A k \in 1..Len(dependencies[P]) :
                   \E j \in 1..Len(dependencies[P][k]) : installed(m, dependencies[P][k][j])
            /\ \A j \in 1..Len(conflicts[P]) : ~installed(m, conflicts[P][j])

\* C2: check_solution prints `c VALIDATION OK` exactly when every installed
\* package has an installed member in each recorded alternative list and no
\* installed recorded conflict partner, and `c VALIDATION WRONG` otherwise.
C2_ValidationOkIffConsistent ==
    pc = "validated" =>
        stdout[Len(stdout)].tag =
            (IF consistent(solution.model) THEN "c VALIDATION OK" ELSE "c VALIDATION WRONG")

\* assignment m respects the dependency and conflict lines of the input
respects(m) ==
    \A k \in 1..Len(stream) :
        LET a == stream[k].args IN
        /\ stream[k].kind = "d" =>
               (installed(m, a[1]) => \E i \in 2..Len(a) : installed(m, a[i]))
        /\ stream[k].kind = "c" =>
               ~(installed(m, a[1]) /\ installed(m, a[2]))

\* C3: for an accepted input, an assignment satisfies the hard clauses of the
\* formula if and only if it respects every dependency and conflict line.
C3_HardClausesExactlyTheProblem ==
    returned =>
        \A m \in Models(formula.num_vars) : sat_hard(formula, m) <=> respects(m)

\* C7: the solver is invoked at most once, only after the input is consumed
\* and the number of distinct declared packages equals the header count; a
\* run ended by PackageCountMismatch has exit code 1 (UnknownPackage has 2),
\* differing counts, no solver call and no result line.
C7_SolverOnceAfterCountCheck ==
    /\ solver_calls \in {0, 1}
    /\ returned => solver_calls = 1
    /\ solver_calls = 1 =>
           /\ pc # "parsing"
           /\ Cardinality(declared_names) = header_count
    /\ outcome = "PackageCountMismatch" =>
           /\ pc = "exit"
           /\ exit_code = 1
           /\ Cardinality(declared_names) # header_count
           /\ solver_calls = 0
           /\ result_lines = {}
    /\ outcome = "UnknownPackage" => exit_code = 2 /\ solver_calls = 0

C7_Witness ==
    /\ pc = "validated"
    /\ solver_calls = 1
    /\ header_count = 2
    /\ \E k \in 1..Len(stream) : stream[k].kind = "d"

\* print_solution has acted
print_called == solver_calls = 1 /\ pc # "solved"

\* C8: print_solution prints `o <cost>` and then a `v` line that lists, in
\* ascending order and once each, exactly the declared packages whose
\* variable is false in the assignment.
C8_VLineListsNotInstalled ==
    print_called =>
        /\ Len(stdout) = 2 \/ (Len(stdout) = 3 /\ pc = "validated")
        /\ stdout[1] = Out("o", solution.opt, <<>>)
        /\ stdout[2].tag = "v"
        /\ pc # "exit"
        /\ LET lst == stdout[2].names IN
           /\ \A i \in 1..Len(lst) - 1 : name_rank(lst[i]) < name_rank(lst[i + 1])
           /\ {lst[i] : i \in 1..Len(lst)} =
                  {n \in DOMAIN packages : ~installed(solution.model, n)}

\* position of a name among the first declarations of the stream
first_decl(n) == CHOOSE j \in package_decls :
                     stream[j].args[1] = n /\ \A i \in package_decls : stream[i].args[1] = n => j <= i
decl_rank(n) == Cardinality({x \in declared_names : first_decl(x) <= first_decl(n)})

\* C9: after any package declarations the two maps are mutually inverse
\* bijections between the distinct declared names and 1..k in order of first
\* declaration, k variables are minted, and the soft clauses are (1), ..., (k).
C9_NameIdBijection ==
    outcome = "running" =>
        LET k == Cardinality(declared_names) IN
        /\ DOMAIN packages = declared_names
        /\ DOMAIN package_ids = 1..k
        /\ \A n \in DOMAIN packages : packages[n] = decl_rank(n)
        /\ \A n \in DOMAIN packages :
               packages[n] \in DOMAIN package_ids /\ package_ids[packages[n]] = n
        /\ \A i \in DOMAIN package_ids : packages[package_ids[i]] = i
        /\ formula.num_vars = k
        /\ Cardinality(soft_clauses(formula)) = k
        /\ \A n \in DOMAIN packages :
               \E c \in soft_clauses(formula) :
                   formula.clauses[c] = [lits |-> <<packages[n]>>, weight |-> 1]

\* C10: every recorded dependency has a non-empty alternative list and no
\* hard clause consists of a single literal.
C10_DependenciesNonEmpty ==
    /\ \A P \in DOMAIN dependencies :
           \A k \in 1..Len(dependencies[P]) : Len(dependencies[P][k]) >= 1
    /\ \A c \in hard_clauses(formula) : Len(formula.clauses[c].lits) >= 2

\* ----------------------------------------------------------------- Graph
\* tuple(x) of a frozenset x: its members in some order
tuples_of(e) ==
    IF Cardinality(e) = 1 THEN {<<x>> : x \in e}
    ELSE {<<x, y>> : x \in e, y \in e} \ {<<x, x>> : x \in e}
\* tuple(tuple(x) for x in edges): the set's members in some order
RECURSIVE tuple_orders(_)
tuple_orders(S) ==
    IF S = {} THEN {<<>>}
    ELSE UNION {{<<t>> \o rest : t \in tuples_of(e), rest \in tuple_orders(S \ {e})} : e \in S}

\* the `e` lines of a stream over nodes 1..n, as (node, node) pairs
EdgeLineSets(n) ==
    {L \in SUBSET ((1..n) \X (1..n)) : Cardinality(L) <= MaxEdgeLines}

\* read_stream on a header `p edge n m` followed by the edge lines L
ReadStream ==
    /\ gpc = "new"
    /\ \E n \in 0..MaxNodes, m \in 0..MaxEdgeLines :
       \E L \in EdgeLineSets(n) :
           LET edge_set == {{l[1], l[2]} : l \in L} IN
           /\ n_nodes' = n
           /\ edges' \in tuple_orders(edge_set)
           /\ warned' = (m # Cardinality(edge_set))
    /\ gpc' = "loaded"
    /\ UNCHANGED <<graph_formula, spu_vars>>

\* formula after [formula.new_var() for _ in range(n)]; nodes[k - 1] = k
RECURSIVE with_vars(_, _)
with_vars(f, n) == IF n = 0 THEN f ELSE new_var(with_vars(f, n - 1))
node_var(k) == k

\* add_clause for each literal list of cs, in order
RECURSIVE add_clauses(_, _, _)
add_clauses(f, cs, weight) ==
    IF cs = <<>> THEN f
    ELSE add_clause(add_clauses(f, SubSeq(cs, 1, Len(cs) - 1), weight), cs[Len(cs)], weight)
RECURSIVE flatten(_)
flatten(ss) == IF ss = <<>> THEN <<>> ELSE Head(ss) \o flatten(Tail(ss))

\* `for e1, e2 in self.edges` unpacks every edge iff each is a pair
edges_unpack == \A k \in 1..Len(edges) : Len(edges[k]) = 2

mvc_soft_clause(n) == <<-n>>
\* the second endpoint's literal negated
mvc_hard_clause_negated(e) == <<node_var(e[1]), -node_var(e[2])>>
mvc_hard_clause(e) == <<node_var(e[1]), node_var(e[2])>>
mvc_formula ==
    LET f0 == with_vars(NewFormula, n_nodes)
        f1 == add_clauses(f0, [k \in 1..n_nodes |-> mvc_soft_clause(node_var(k))], 1)
    IN add_clauses(f1, [k \in 1..Len(edges) |-> mvc_hard_clause(edges[k])], TOP_WEIGHT)

MinVertexCover ==
    /\ gpc = "loaded"
    /\ IF edges_unpack
       THEN gpc' = "mvc" /\ graph_formula' = mvc_formula
       ELSE gpc' = "error" /\ UNCHANGED graph_formula
    /\ UNCHANGED <<n_nodes, edges, warned, spu_vars>>

\* itertools.product(range(1, n + 1), range(1, n + 1)), in its order
product_pairs(n) == [k \in 1..(n * n) |-> <<((k - 1) \div n) + 1, ((k - 1) % n) + 1>>]
in_edges(t) == \E k \in 1..Len(edges) : edges[k] = t
\* the pair looked up in the orientation (v1, v2) only
clique_forbidden_one_way(p) == ~in_edges(<<p[1], p[2]>>) /\ p[1] < p[2]
clique_forbidden(p) == ~in_edges(<<p[1], p[2]>>) /\ ~in_edges(<<p[2], p[1]>>) /\ p[1] < p[2]
clique_hard_clause(p) == <<-p[1], -p[2]>>
clique_formula ==
    LET f0 == with_vars(NewFormula, n_nodes)
        f1 == add_clauses(f0, [k \in 1..n_nodes |-> <<node_var(k)>>], 1)
        ps == SelectSeq(product_pairs(n_nodes), clique_forbidden)
    IN add_clauses(f1, [k \in 1..Len(ps) |-> clique_hard_clause(ps[k])], TOP_WEIGHT)

MaxClique ==
    /\ gpc = "loaded"
    /\ gpc' = "clique"
    /\ graph_formula' = clique_formula
    /\ UNCHANGED <<n_nodes, edges, warned, spu_vars>>

\* the second clause negating one endpoint only
cut_soft_clauses_half(e) ==
    << <<node_var(e[1]), node_var(e[2])>>, <<-node_var(e[1]), node_var(e[2])>> >>
cut_soft_clauses(e) ==
    << <<node_var(e[1]), node_var(e[2])>>, <<-node_var(e[1]), -node_var(e[2])>> >>
cut_formula ==
    LET f0 == with_vars(NewFormula, n_nodes)
    IN add_clauses(f0, flatten([k \in 1..Len(edges) |-> cut_soft_clauses(edges[k])]), 1)

MaxCut ==
    /\ gpc = "loaded"
    /\ IF edges_unpack
       THEN gpc' = "cut" /\ graph_formula' = cut_formula
       ELSE gpc' = "error" /\ UNCHANGED graph_formula
    /\ UNCHANGED <<n_nodes, edges, warned, spu_vars>>

\* [n for n in model if n > 0]
is_positive(n) == n > 0
decode(model) == SelectSeq(model, is_positive)

GraphNext ==
    \/ ReadStream
    \/ MinVertexCover
    \/ MaxClique
    \/ MaxCut

GraphSpec == Init /\ [][GraphNext]_vars

decoded_set(m) == {decode(m)[i] : i \in 1..Len(decode(m))}
adjacent(u, v) == \E k \in 1..Len(edges) : {edges[k][i] : i \in 1..Len(edges[k])} = {u, v}

\* C4: under every assignment satisfying the hard clauses built by
\* min_vertex_cover, the decoded set touches every edge, and the violated
\* soft weight is the size of the decoded set.
C4_VertexCoverSound ==
    gpc = "mvc" =>
        \A m \in Models(n_nodes) :
            sat_hard(graph_formula, m) =>
                /\ \A k \in 1..Len(edges) :
                       edges[k][1] \in decoded_set(m) \/ edges[k][2] \in decoded_set(m)
                /\ soft_cost(graph_formula, m) = Cardinality(decoded_set(m))

C4_Witness ==
    /\ gpc = "mvc"
    /\ Len(edges) >= 2
    /\ \E m \in Models(n_nodes) :
           /\ sat_hard(graph_formula, m)
           /\ Cardinality(decoded_set(m)) = 1
    /\ \E m \in Models(n_nodes) : ~sat_hard(graph_formula, m)

\* the literal lists of the hard clauses, in the formula's order
hard_lits(f) ==
    LET is_hard(c) == c.weight = TOP_WEIGHT
        hs == SelectSeq(f.clauses, is_hard)
    IN [k \in 1..Len(hs) |-> hs[k].lits]

\* C5: under every assignment satisfying the hard clauses built by
\* max_clique, any two distinct decoded nodes are joined by an edge, however
\* the edge is stored; and the hard clauses are one (-i, -j) for each pair
\* i < j that is not an edge, and nothing else.
C5_CliqueSound ==
    gpc = "clique" =>
        /\ \A m \in Models(n_nodes) :
               sat_hard(graph_formula, m) =>
                   \A u \in decoded_set(m), v \in decoded_set(m) : u # v => adjacent(u, v)
        /\ LET H == hard_lits(graph_formula) IN
           /\ \A a \in 1..Len(H), b \in 1..Len(H) : H[a] = H[b] => a = b
           /\ {H[a] : a \in 1..Len(H)} =
                  {<<-p[1], -p[2]>> :
                      p \in {q \in (1..n_nodes) \X (1..n_nodes) :
                                 q[1] < q[2] /\ ~adjacent(q[1], q[2])}}

C5_Witness ==
    /\ gpc = "clique"
    /\ \E k \in 1..Len(edges) : Len(edges[k]) = 2 /\ edges[k][1] > edges[k][2]
    /\ \E m \in Models(n_nodes) :
           sat_hard(graph_formula, m) /\ Cardinality(decoded_set(m)) >= 2
    /\ \E m \in Models(n_nodes) : ~sat_hard(graph_formula, m)

crosses(m, e) == (e[1] \in decoded_set(m)) # (e[2] \in decoded_set(m))
violated_of_edge(m, k) ==
    Cardinality({c \in {2 * k - 1, 2 * k} : ~clause_sat(m, graph_formula.clauses[c])})

\* C6: the formula built by max_cut has no hard clause and two weight-1 soft
\* clauses per edge; under every assignment an edge across the cut violates
\* neither, an edge within one side violates exactly one, and the number of
\* crossing edges is the number of edges minus the violated soft weight.
C6_MaxCutCost ==
    gpc = "cut" =>
        /\ hard_clauses(graph_formula) = {}
        /\ Len(graph_formula.clauses) = 2 * Len(edges)
        /\ \A c \in 1..Len(graph_formula.clauses) : graph_formula.clauses[c].weight = 1
        /\ \A m \in Models(n_nodes) :
               /\ \A k \in 1..Len(edges) :
                      violated_of_edge(m, k) = (IF crosses(m, edges[k]) THEN 0 ELSE 1)
               /\ Cardinality({k \in 1..Len(edges) : crosses(m, edges[k])}) =
                      Len(edges) - soft_cost(graph_formula, m)

C6_Witness ==
    /\ gpc = "cut"
    /\ Len(edges) = 3
    /\ \E m \in Models(n_nodes) : soft_cost(graph_formula, m) = 1
    /\ \E m \in Models(n_nodes) : soft_cost(graph_formula, m) = 3
====
